---- MODULE Spec2Model ----
(***************************************************************************)
(* A model of the Traefik middleware in src/dynamic_replace.go: New builds *)
(* a DynamicReplacePlugin from a Config; ServeHTTP reads the request body, *)
(* extracts "uid", fetches a field mapping from the lookup API with        *)
(* fetchDataFromAPI, replaces the tokens {{key}} of the configured keys    *)
(* and POSTs the result with sendToDestination.                            *)
(*                                                                         *)
(* Text (request bodies, keys, values, lookup response bodies) is a        *)
(* sequence of one-character strings.  The modelled texts carry no         *)
(* backslash escape and no whitespace between JSON tokens.                 *)
(***************************************************************************)
EXTENDS Naturals, Sequences, FiniteSets

(***************************************************************************)
(* Bounds of the model.                                                    *)
(***************************************************************************)
\* longest configured key list that is enumerated
MaxKeys == 2
\* most pieces a body's payload text is made of (substitution specification)
MaxPieces == 3
\* handlers of ServeHTTP that may run at the same time
NReq == 2

ReqIds == 1..NReq

(***************************************************************************)
(* Program constants.                                                      *)
(***************************************************************************)
StatusOK == 200
StatusBadRequest == 400
StatusInternalServerError == 500

(***************************************************************************)
(* Text helpers.                                                           *)
(***************************************************************************)
LBrace == "{"
RBrace == "}"
Quote == "\""

\* the sequences over S of length 0..n
SeqsUpTo(S, n) == UNION {[1..k -> S] : k \in 0..n}

\* s continues with t at position i
HasPrefixAt(s, i, t) ==
    /\ i >= 1
    /\ i + Len(t) - 1 <= Len(s)
    /\ SubSeq(s, i, i + Len(t) - 1) = t

\* t occurs somewhere in s
Contains(s, t) == \E i \in 1..(Len(s) + 1) : HasPrefixAt(s, i, t)

RECURSIVE Concat(_)
Concat(ss) == IF ss = <<>> THEN <<>> ELSE Head(ss) \o Concat(Tail(ss))

\* fmt.Sprintf("{{%s}}", key)
Token(key) == <<LBrace, LBrace>> \o key \o <<RBrace, RBrace>>

\* a mutant of ReplaceAll: strings.Replace(s, old, new, 1), which replaces the
\* first occurrence only
RECURSIVE ReplaceAll_FirstOnly(_, _, _)
ReplaceAll_FirstOnly(s, old, new) ==
    IF Len(s) < Len(old) THEN s
    ELSE IF SubSeq(s, 1, Len(old)) = old
         THEN new \o SubSeq(s, Len(old) + 1, Len(s))
         ELSE <<Head(s)>> \o ReplaceAll_FirstOnly(Tail(s), old, new)

\* strings.ReplaceAll(s, old, new) for a non-empty old: the non-overlapping
\* occurrences of old, found from the left, are each replaced by new
RECURSIVE ReplaceAll(_, _, _)
ReplaceAll(s, old, new) ==
    IF Len(s) < Len(old) THEN s
    ELSE IF SubSeq(s, 1, Len(old)) = old
         THEN new \o ReplaceAll(SubSeq(s, Len(old) + 1, Len(s)), old, new)
         ELSE <<Head(s)>> \o ReplaceAll(Tail(s), old, new)

EmptyMap == [k \in {} |-> <<>>]

\* the loop of ServeHTTP over d.replaceableKeys, from position i on
RECURSIVE ReplaceFrom(_, _, _, _)
ReplaceFrom(text, keys, fields, i) ==
    IF i > Len(keys) THEN text
    ELSE IF keys[i] \in DOMAIN fields
         THEN ReplaceFrom(ReplaceAll(text, Token(keys[i]), fields[keys[i]]),
                          keys, fields, i + 1)
         ELSE ReplaceFrom(text, keys, fields, i + 1)

\* the loop with the value read without the exists check, so that a key the
\* mapping lacks is replaced by the zero value ""
RECURSIVE ReplaceFrom_NoExistsCheck(_, _, _, _)
ReplaceFrom_NoExistsCheck(text, keys, fields, i) ==
    IF i > Len(keys) THEN text
    ELSE ReplaceFrom_NoExistsCheck(
             ReplaceAll(text, Token(keys[i]),
                        IF keys[i] \in DOMAIN fields THEN fields[keys[i]] ELSE <<>>),
             keys, fields, i + 1)

\* a mutant of Substitute: the keys are processed from the last to the first
Substitute_Reversed(text, keys, fields) ==
    ReplaceFrom(text, [i \in 1..Len(keys) |-> keys[Len(keys) + 1 - i]], fields, 1)

\* a mutant of Substitute: the loop without the exists check
Substitute_NoExistsCheck(text, keys, fields) ==
    ReplaceFrom_NoExistsCheck(text, keys, fields, 1)

\* updatedBody after the loop
Substitute(text, keys, fields) == ReplaceFrom(text, keys, fields, 1)

(***************************************************************************)
(* encoding/json on the modelled texts.  A parse result is                 *)
(* [ok, next, t, v, m]: next is the position after the value, t its JSON   *)
(* type, v the text of a string value, m the members of an object in       *)
(* source order, each [k, t, v].                                           *)
(***************************************************************************)
Digits == {"0", "1", "2", "3", "4", "5", "6", "7", "8", "9"}

ParseFail == [ok |-> FALSE, next |-> 0, t |-> "", v |-> <<>>, m |-> <<>>]

ParseOk(n, type, val, mem) == [ok |-> TRUE, next |-> n, t |-> type, v |-> val, m |-> mem]

\* position of the first quote at or after i, 0 when there is none
RECURSIVE ScanQuote(_, _)
ScanQuote(s, i) ==
    IF i > Len(s) THEN 0
    ELSE IF s[i] = Quote THEN i ELSE ScanQuote(s, i + 1)

\* position after the digits that start at i
RECURSIVE ScanDigits(_, _)
ScanDigits(s, i) ==
    IF i <= Len(s) /\ s[i] \in Digits THEN ScanDigits(s, i + 1) ELSE i

ParseString(s, i) ==
    IF i > Len(s) \/ s[i] # Quote THEN ParseFail
    ELSE LET j == ScanQuote(s, i + 1)
         IN IF j = 0 THEN ParseFail
            ELSE ParseOk(j + 1, "string", SubSeq(s, i + 1, j - 1), <<>>)

ParseNumber(s, i) ==
    LET j == ScanDigits(s, i)
    IN IF s[i] = "0" /\ j > i + 1 THEN ParseOk(i + 1, "number", <<>>, <<>>)
       ELSE ParseOk(j, "number", <<>>, <<>>)

ParseLiteral(s, i) ==
    IF HasPrefixAt(s, i, <<"n", "u", "l", "l">>) THEN ParseOk(i + 4, "null", <<>>, <<>>)
    ELSE IF HasPrefixAt(s, i, <<"t", "r", "u", "e">>) THEN ParseOk(i + 4, "bool", <<>>, <<>>)
    ELSE IF HasPrefixAt(s, i, <<"f", "a", "l", "s", "e">>)
         THEN ParseOk(i + 5, "bool", <<>>, <<>>)
    ELSE ParseFail

RECURSIVE ParseValue(_, _), ParseMembers(_, _, _), ParseElements(_, _)
ParseValue(s, i) ==
    IF i > Len(s) THEN ParseFail
    ELSE IF s[i] = Quote THEN ParseString(s, i)
    ELSE IF s[i] = LBrace
         THEN IF i + 1 <= Len(s) /\ s[i + 1] = RBrace
              THEN ParseOk(i + 2, "object", <<>>, <<>>)
              ELSE ParseMembers(s, i + 1, <<>>)
    ELSE IF s[i] = "["
         THEN IF i + 1 <= Len(s) /\ s[i + 1] = "]"
              THEN ParseOk(i + 2, "array", <<>>, <<>>)
              ELSE ParseElements(s, i + 1)
    ELSE IF s[i] \in Digits THEN ParseNumber(s, i)
    ELSE ParseLiteral(s, i)

ParseMembers(s, i, acc) ==
    LET key == ParseString(s, i)
    IN IF ~key.ok \/ key.next > Len(s) \/ s[key.next] # ":" THEN ParseFail
       ELSE LET val == ParseValue(s, key.next + 1)
                acc2 == Append(acc, [k |-> key.v, t |-> val.t, v |-> val.v])
            IN IF ~val.ok \/ val.next > Len(s) THEN ParseFail
               ELSE IF s[val.next] = "," THEN ParseMembers(s, val.next + 1, acc2)
               ELSE IF s[val.next] = RBrace
                    THEN ParseOk(val.next + 1, "object", <<>>, acc2)
               ELSE ParseFail

ParseElements(s, i) ==
    LET val == ParseValue(s, i)
    IN IF ~val.ok \/ val.next > Len(s) THEN ParseFail
       ELSE IF s[val.next] = "," THEN ParseElements(s, val.next + 1)
       ELSE IF s[val.next] = "]" THEN ParseOk(val.next + 1, "array", <<>>, <<>>)
       ELSE ParseFail

\* the text is one JSON value and nothing else
ValidJSON(s) ==
    LET p == ParseValue(s, 1) IN p.ok /\ p.next = Len(s) + 1

\* the member a Go map holds for key after decoding: the last one of that name
RECURSIVE LastMember(_, _, _)
LastMember(mem, key, i) ==
    IF i = 0 THEN 0
    ELSE IF mem[i].k = key THEN i ELSE LastMember(mem, key, i - 1)

HasMember(mem, key) == LastMember(mem, key, Len(mem)) # 0

Member(mem, key) == mem[LastMember(mem, key, Len(mem))]

\* a mutant of Unmarshal: null is refused like every other value that is not
\* an object
Unmarshal_ObjectOnly(s) ==
    LET p == ParseValue(s, 1)
    IN IF ValidJSON(s) /\ p.t = "object"
       THEN [err |-> FALSE, requestData |-> p.m]
       ELSE [err |-> TRUE, requestData |-> <<>>]

\* a mutant of Unmarshal: text after the first JSON value is not looked at
Unmarshal_FirstValueOnly(s) ==
    LET p == ParseValue(s, 1)
    IN IF p.ok /\ p.t \in {"object", "null"}
       THEN [err |-> FALSE, requestData |-> p.m]
       ELSE [err |-> TRUE, requestData |-> <<>>]

\* json.Unmarshal(body, &requestData) with requestData a map[string]interface{}:
\* an error unless the text is a JSON object or null; null leaves the map nil
Unmarshal(s) ==
    LET p == ParseValue(s, 1)
    IN IF ValidJSON(s) /\ p.t \in {"object", "null"}
       THEN [err |-> FALSE, requestData |-> p.m]
       ELSE [err |-> TRUE, requestData |-> <<>>]

\* json.NewDecoder(resp.Body).Decode(&responseData) with responseData a
\* map[string]string: the first JSON value of the stream is decoded and what
\* follows it is not read; a null member leaves the zero value ""
Decode(s) ==
    LET p == ParseValue(s, 1)
        mem == p.m
        keys == {mem[i].k : i \in 1..Len(mem)}
    IN IF ~p.ok \/ p.t \notin {"object", "null"}
          \/ \E i \in 1..Len(mem) : mem[i].t \notin {"string", "null"}
       THEN [err |-> TRUE, responseData |-> EmptyMap]
       ELSE [err |-> FALSE,
             responseData |-> [k \in keys |-> Member(mem, k).v]]

UidName == <<"u", "i", "d">>

\* uid, ok := requestData["uid"].(string)
UidOf(requestData) ==
    IF HasMember(requestData, UidName) /\ Member(requestData, UidName).t = "string"
    THEN [ok |-> TRUE, uid |-> Member(requestData, UidName).v]
    ELSE [ok |-> FALSE, uid |-> <<>>]

\* a mutant of UidMissing: the empty uid is let through
UidMissing_NoEmptyCheck(requestData) == ~UidOf(requestData).ok

\* !ok || uid == ""
UidMissing(requestData) ==
    ~UidOf(requestData).ok \/ UidOf(requestData).uid = <<>>

(***************************************************************************)
(* Inputs: configurations, request bodies, lookup and destination answers. *)
(***************************************************************************)
APIURLs == {"", "http://lookup"}

\* "://dest" is a URL that url.Parse rejects (missing protocol scheme)
DestinationURLs == {"", "http://dest", "://dest"}

KeyNames == {<<>>, <<"a">>, <<"b">>}

NameKey == <<"n", "a", "m", "e">>

\* the configuration of the documented example: the single key name
ExampleConfig ==
    [APIURL |-> "http://lookup", ReplaceableKeys |-> <<NameKey>>,
     DestinationURL |-> "http://dest"]

Configs ==
    [APIURL : APIURLs,
     ReplaceableKeys : SeqsUpTo(KeyNames, MaxKeys),
     DestinationURL : DestinationURLs]
    \cup {ExampleConfig}

\* "name":  and  "name":"value"  as JSON text
KeyText(name) == <<Quote>> \o name \o <<Quote, ":">>

StrMember(name, value) == KeyText(name) \o <<Quote>> \o value \o <<Quote>>

\* {<uid member>"g":"<payload>"}
ObjBody(uidPart, payload) ==
    <<LBrace>> \o uidPart \o StrMember(<<"g">>, payload) \o <<RBrace>>

GoodUid == StrMember(UidName, <<"u", "7">>) \o <<",">>

\* the payloads of the bodies that are sent through the whole pipeline
PipelinePayloads ==
    {<<>>, <<"x">>, Token(<<"a">>), Token(<<"b">>), Token(<<>>),
     <<"x">> \o Token(<<"a">>) \o Token(<<"b">>) \o Token(<<"a">>)}

\* {"uid":"abc123","greeting":"Hello {{name}}"}
ExampleBody ==
    <<LBrace>> \o StrMember(UidName, <<"a", "b", "c", "1", "2", "3">>) \o <<",">>
    \o StrMember(<<"g", "r", "e", "e", "t", "i", "n", "g">>,
                 <<"H", "e", "l", "l", "o", " ">> \o Token(NameKey))
    \o <<RBrace>>

\* bodies that are a JSON object with a non-empty string uid
GoodBodies == {ObjBody(GoodUid, p) : p \in PipelinePayloads} \cup {ExampleBody}

\* JSON objects without a usable uid
NoUidBodies ==
    {ObjBody(<<>>, Token(<<"a">>)),
     ObjBody(StrMember(UidName, <<>>) \o <<",">>, Token(<<"a">>)),
     ObjBody(KeyText(UidName) \o <<"1", ",">>, Token(<<"a">>)),
     ObjBody(KeyText(UidName) \o <<"n", "u", "l", "l", ",">>, Token(<<"a">>)),
     ObjBody(KeyText(UidName) \o <<"[", "]", ",">>, Token(<<"a">>)),
     ObjBody(GoodUid \o KeyText(UidName) \o <<"t", "r", "u", "e", ",">>, <<>>),
     <<LBrace, RBrace>>}

\* valid JSON that is not an object
NonObjectBodies ==
    {<<"n", "u", "l", "l">>,
     <<"[", "1", "]">>,
     <<"[", "]">>,
     <<Quote, "u", "i", "d", Quote>>,
     <<"7">>,
     <<"t", "r", "u", "e">>}

\* texts that are not JSON
NonJSONBodies ==
    {<<>>,
     <<"x">>,
     <<LBrace>> \o GoodUid,
     SubSeq(ObjBody(GoodUid, <<"x">>), 1, Len(ObjBody(GoodUid, <<"x">>)) - 1),
     ObjBody(GoodUid, <<"x">>) \o <<RBrace>>,
     <<LBrace>> \o Token(<<"a">>) \o <<RBrace>>,
     <<LBrace, "u", "i", "d", ":", "1", RBrace>>}

Bodies == GoodBodies \cup NoUidBodies \cup NonObjectBodies \cup NonJSONBodies

\* what ioutil.ReadAll(req.Body) returns
Inbound ==
    {[readErr |-> FALSE, body |-> b] : b \in Bodies}
    \cup {[readErr |-> TRUE, body |-> b] : b \in {<<>>, <<LBrace>> \o GoodUid}}

\* a JSON object text with the given members [k, v], in that order
RECURSIVE MembersText(_)
MembersText(mem) ==
    IF mem = <<>> THEN <<>>
    ELSE StrMember(Head(mem).k, Head(mem).v)
         \o (IF Len(mem) > 1 THEN <<",">> ELSE <<>>)
         \o MembersText(Tail(mem))

ObjectText(mem) == <<LBrace>> \o MembersText(mem) \o <<RBrace>>

KV(name, value) == [k |-> name, v |-> value]

\* lookup response bodies that decode to a map[string]string
GoodLookupBodies ==
    {ObjectText(<<>>),
     ObjectText(<<KV(<<"a">>, <<"X">>)>>),
     ObjectText(<<KV(<<"b">>, <<"Y">>)>>),
     ObjectText(<<KV(<<>>, <<"Z">>)>>),
     ObjectText(<<KV(<<"a">>, <<"X">>), KV(<<"b">>, <<"Y">>)>>),
     ObjectText(<<KV(<<"a">>, Token(<<"b">>)), KV(<<"b">>, <<"Y">>)>>),
     ObjectText(<<KV(<<"a">>, <<>>), KV(<<"c">>, <<"W">>)>>),
     ObjectText(<<KV(<<"c">>, <<"W">>)>>),
     ObjectText(<<KV(<<"a">>, <<"X">>), KV(<<"a">>, <<"Y">>)>>),
     ObjectText(<<KV(<<"a">>, <<"X">>)>>) \o <<"z">>,
     ObjectText(<<KV(<<"a">>, Token(<<"a">>) \o <<"x">>)>>),
     ObjectText(<<KV(NameKey, <<"A", "d", "a">>)>>),
     <<LBrace>> \o KeyText(<<"a">>) \o <<"n", "u", "l", "l", RBrace>>,
     <<"n", "u", "l", "l">>}

\* lookup response bodies on which Decode reports an error
BadLookupBodies ==
    {<<>>,
     <<"[", "]">>,
     <<Quote, "X", Quote>>,
     <<LBrace>> \o KeyText(<<"a">>) \o <<"1", RBrace>>,
     <<LBrace>> \o KeyText(<<"a">>) \o ObjectText(<<KV(<<"b">>, <<"Y">>)>>) \o <<RBrace>>,
     <<LBrace>> \o KeyText(<<"a">>) \o <<"[", Quote, "X", Quote, "]", RBrace>>,
     <<LBrace>> \o StrMember(<<"a">>, <<"X">>)}

NoResponse == [err |-> FALSE, code |-> 0, status |-> "", body |-> <<>>]

Response(c, st, b) == [err |-> FALSE, code |-> c, status |-> st, body |-> b]

TransportError == [err |-> TRUE, code |-> 0, status |-> "", body |-> <<>>]

\* what http.Get(apiURL) returns
LookupOutcomes ==
    {TransportError}
    \cup {Response(200, "200 OK", b) : b \in GoodLookupBodies \cup BadLookupBodies}
    \cup {Response(201, "201 Created", ObjectText(<<KV(<<"a">>, <<"X">>)>>)),
          Response(204, "204 No Content", <<>>),
          Response(404, "404 Not Found", ObjectText(<<KV(<<"a">>, <<"X">>)>>)),
          Response(500, "500 Internal Server Error", <<>>)}

\* what client.Do(req) returns; the destination's body is kept as one string
NoDestResponse == [err |-> FALSE, code |-> 0, status |-> "", body |-> ""]

DestError == [err |-> TRUE, code |-> 0, status |-> "", body |-> ""]

DestOutcomes ==
    {DestError,
     Response(200, "200 OK", "stored"),
     Response(200, "200 OK", "200 OK"),
     Response(201, "201 Created", "stored"),
     Response(400, "400 Bad Request", "rejected"),
     Response(404, "404 Not Found", "rejected"),
     Response(500, "500 Internal Server Error", "rejected"),
     Response(503, "503 Service Unavailable", "")}

(***************************************************************************)
(* State.                                                                  *)
(***************************************************************************)
VARIABLES
    config,        \* the *Config handed to New
    newResult,     \* "not called", "handler" or "error": what New returned
    handler,       \* the DynamicReplacePlugin New built (NilHandler: none)
    pc,            \* per request: idle, lookup (in http.Get), forward (in client.Do), done
    readFailed,    \* per request: ioutil.ReadAll returned an error
    body,          \* per request: the bytes ioutil.ReadAll returned
    uid,           \* per request: the uid taken from the body
    apiResp,       \* per request: what http.Get returned
    fetchedData,   \* per request: the map fetchDataFromAPI returned
    updatedBody,   \* per request: the body after the replacement loop
    destResp,      \* per request: what client.Do returned
    lookupCalls,   \* per request: the GET requests issued, [url, uid]
    forwardCalls,  \* per request: the POST requests issued, [url, contentType, body]
    written,       \* per request: the responses written to rw, [status, msg]
    opened,        \* per request: outbound response bodies obtained
    closed,        \* per request: outbound response bodies closed
    nextCalls,     \* invocations of d.next
    resubBody      \* the replacement loop applied to updatedBody once more

vars ==
    <<config, newResult, handler, pc, readFailed, body, uid, apiResp, fetchedData,
      updatedBody, destResp, lookupCalls, forwardCalls, written, opened, closed,
      nextCalls, resubBody>>

\* the variables of one request's handling
reqVars ==
    <<pc, readFailed, body, uid, apiResp, fetchedData, updatedBody, destResp,
      lookupCalls, forwardCalls, written, opened, closed>>

NilHandler ==
    [next |-> "", name |-> "", apiURL |-> "", replaceableKeys |-> <<>>,
     destinationURL |-> ""]

InitRequests ==
    /\ pc = [r \in ReqIds |-> "idle"]
    /\ readFailed = [r \in ReqIds |-> FALSE]
    /\ body = [r \in ReqIds |-> <<>>]
    /\ uid = [r \in ReqIds |-> <<>>]
    /\ apiResp = [r \in ReqIds |-> NoResponse]
    /\ fetchedData = [r \in ReqIds |-> EmptyMap]
    /\ updatedBody = [r \in ReqIds |-> <<>>]
    /\ destResp = [r \in ReqIds |-> NoDestResponse]
    /\ lookupCalls = [r \in ReqIds |-> <<>>]
    /\ forwardCalls = [r \in ReqIds |-> <<>>]
    /\ written = [r \in ReqIds |-> <<>>]
    /\ opened = [r \in ReqIds |-> 0]
    /\ closed = [r \in ReqIds |-> 0]
    /\ nextCalls = 0
    /\ resubBody = <<>>

Init ==
    /\ config \in Configs
    /\ newResult = "not called"
    /\ handler = NilHandler
    /\ InitRequests

(***************************************************************************)
(* New.                                                                    *)
(***************************************************************************)
\* a mutant of InvalidConfig: the destination URL is not checked
InvalidConfig_NoDestinationCheck(c) ==
    c.APIURL = "" \/ Len(c.ReplaceableKeys) = 0

\* the condition under which New returns fmt.Errorf("invalid configuration")
InvalidConfig(c) ==
    c.APIURL = "" \/ c.DestinationURL = "" \/ Len(c.ReplaceableKeys) = 0

PluginOf(c) ==
    [next |-> "next", name |-> "dynamic-replace", apiURL |-> c.APIURL,
     replaceableKeys |-> c.ReplaceableKeys, destinationURL |-> c.DestinationURL]

New ==
    /\ newResult = "not called"
    /\ IF InvalidConfig(config)
       THEN newResult' = "error" /\ handler' = NilHandler
       ELSE newResult' = "handler" /\ handler' = PluginOf(config)
    /\ UNCHANGED <<config, reqVars, nextCalls, resubBody>>

(***************************************************************************)
(* ServeHTTP, in the three steps between which it blocks: up to http.Get,  *)
(* from the return of http.Get up to client.Do, and from the return of     *)
(* client.Do to the end.                                                   *)
(***************************************************************************)
\* http.Error(rw, text, code): the status and the text followed by a newline
HttpError(text, code) == [status |-> code, msg |-> <<text, "\n">>]

\* fmt.Sprintf("%s?uid=%s", d.apiURL, uid)
LookupURL(base, id) == [url |-> base, uid |-> id]

\* http.NewRequest("POST", url, ...) fails when url.Parse rejects the URL
NewRequestFails(url) == url = "://dest"

\* a mutant of Finish: the return after the write is left out
Finish_NoReturn(r, w) ==
    /\ written' = [written EXCEPT ![r] = Append(@, w)]
    /\ pc' = pc
    /\ nextCalls' = nextCalls

\* a mutant of Finish: the handler passes the request on to d.next
Finish_ThenNext(r, w) ==
    /\ written' = [written EXCEPT ![r] = Append(@, w)]
    /\ pc' = [pc EXCEPT ![r] = "done"]
    /\ nextCalls' = nextCalls + 1

\* the handler writes w and returns; no path of ServeHTTP calls d.next
Finish(r, w) ==
    /\ written' = [written EXCEPT ![r] = Append(@, w)]
    /\ pc' = [pc EXCEPT ![r] = "done"]
    /\ nextCalls' = nextCalls

\* a mutant of ReadFailureReply: the read failure is answered like a parse failure
ReadFailureReply_BadRequest ==
    HttpError("could not read request body", StatusBadRequest)

\* lines 55-57: what is written when ioutil.ReadAll fails
ReadFailureReply ==
    HttpError("could not read request body", StatusInternalServerError)

\* lines 52-74 and 93-96: read, parse, take the uid, issue the GET; ins is
\* what ioutil.ReadAll may return
ServeHTTPOn(r, ins) ==
    /\ newResult = "handler"
    /\ pc[r] = "idle"
    /\ \E in \in ins :
         /\ body' = [body EXCEPT ![r] = in.body]
         /\ readFailed' = [readFailed EXCEPT ![r] = in.readErr]
         /\ IF in.readErr
            THEN /\ Finish(r, ReadFailureReply)
                 /\ UNCHANGED <<uid, lookupCalls>>
            ELSE IF Unmarshal(in.body).err
            THEN /\ Finish(r, HttpError("invalid JSON", StatusBadRequest))
                 /\ UNCHANGED <<uid, lookupCalls>>
            ELSE LET id == UidOf(Unmarshal(in.body).requestData)
                 IN IF UidMissing(Unmarshal(in.body).requestData)
                    THEN /\ Finish(r, HttpError("uid not found in request",
                                                StatusBadRequest))
                         /\ UNCHANGED <<uid, lookupCalls>>
                    ELSE /\ uid' = [uid EXCEPT ![r] = id.uid]
                         /\ lookupCalls' =
                              [lookupCalls EXCEPT
                                 ![r] = Append(@, LookupURL(handler.apiURL, id.uid))]
                         /\ pc' = [pc EXCEPT ![r] = "lookup"]
                         /\ UNCHANGED <<written, nextCalls>>
    /\ UNCHANGED <<config, newResult, handler, apiResp, fetchedData, updatedBody,
                   destResp, forwardCalls, opened, closed, resubBody>>

ServeHTTP(r) == ServeHTTPOn(r, Inbound)

\* a mutant of FetchResult: the response status is not checked
FetchResult_NoStatusCheck(resp) ==
    IF resp.err THEN [err |-> TRUE, responseData |-> EmptyMap]
    ELSE Decode(resp.body)

\* fetchDataFromAPI from the return of http.Get on: [err, responseData]
FetchResult(resp) ==
    IF resp.err THEN [err |-> TRUE, responseData |-> EmptyMap]
    ELSE IF resp.code # StatusOK THEN [err |-> TRUE, responseData |-> EmptyMap]
    ELSE Decode(resp.body)

\* lines 96-99 and 125-129: a call that returns without error hands the
\* handler one response whose body is open
Opens(resp) == IF resp.err THEN 0 ELSE 1

\* a mutant of FetchCloses: the body is closed at the end of fetchDataFromAPI
\* only, not by a defer
FetchCloses_OnSuccessOnly(resp) == IF FetchResult(resp).err THEN 0 ELSE 1

\* line 100: defer resp.Body.Close() runs on every return after http.Get
\* succeeded, the non-200 return and the decode-error return included
FetchCloses(resp) == IF resp.err THEN 0 ELSE 1

\* line 130: defer resp.Body.Close() in sendToDestination
ForwardCloses(resp) == IF resp.err THEN 0 ELSE 1

\* a mutant of PostRequest: the body to send is kept in one buffer shared by
\* all requests
PostRequest_SharedBuffer(url, text) ==
    [url |-> url, contentType |-> "application/json", body |-> updatedBody[1]]

\* the request sendToDestination builds
PostRequest(url, text) ==
    [url |-> url, contentType |-> "application/json", body |-> text]

\* lines 96-125: http.Get returns, the response is decoded and closed, the
\* placeholders are replaced and the POST is issued; outs is what http.Get
\* may return
FetchReturnOn(r, outs) ==
    /\ pc[r] = "lookup"
    /\ \E resp \in outs :
         LET res == FetchResult(resp)
             text == Substitute(body[r], handler.replaceableKeys, res.responseData)
         IN /\ apiResp' = [apiResp EXCEPT ![r] = resp]
            /\ opened' = [opened EXCEPT ![r] = @ + Opens(resp)]
            /\ closed' = [closed EXCEPT ![r] = @ + FetchCloses(resp)]
            /\ IF res.err
               THEN /\ Finish(r, HttpError("could not fetch data from API",
                                           StatusInternalServerError))
                    /\ UNCHANGED <<fetchedData, updatedBody, forwardCalls>>
               ELSE /\ fetchedData' = [fetchedData EXCEPT ![r] = res.responseData]
                    /\ updatedBody' = [updatedBody EXCEPT ![r] = text]
                    /\ IF NewRequestFails(handler.destinationURL)
                       THEN /\ Finish(r, HttpError("could not create request to destination",
                                                   StatusInternalServerError))
                            /\ UNCHANGED forwardCalls
                       ELSE /\ forwardCalls' =
                                 [forwardCalls EXCEPT
                                    ![r] = Append(@, PostRequest(handler.destinationURL,
                                                                 text))]
                            /\ pc' = [pc EXCEPT ![r] = "forward"]
                            /\ UNCHANGED <<written, nextCalls>>
    /\ UNCHANGED <<config, newResult, handler, readFailed, body, uid, destResp,
                   lookupCalls, resubBody>>

FetchReturn(r) == FetchReturnOn(r, LookupOutcomes)

\* a mutant of RelayStatus: rw.WriteHeader is left out, so that the first
\* rw.Write sends the implicit status 200
RelayStatus_NoWriteHeader(resp) ==
    [status |-> StatusOK,
     msg |-> <<"Request sent to destination with status: ", resp.status>>]

\* rw.WriteHeader(resp.StatusCode) and the rw.Write that follows it
RelayStatus(resp) ==
    [status |-> resp.code,
     msg |-> <<"Request sent to destination with status: ", resp.status>>]

\* a mutant of ForwardReply: the error of client.Do is not checked
ForwardReply_NoErrCheck(resp) == RelayStatus(resp)

\* what sendToDestination writes to rw once client.Do has returned
ForwardReply(resp) ==
    IF resp.err
    THEN HttpError("could not send request to destination", StatusInternalServerError)
    ELSE RelayStatus(resp)

\* lines 125-134: client.Do returns; outs is what client.Do may return
ForwardReturnOn(r, outs) ==
    /\ pc[r] = "forward"
    /\ \E resp \in outs :
         /\ destResp' = [destResp EXCEPT ![r] = resp]
         /\ Finish(r, ForwardReply(resp))
         /\ opened' = [opened EXCEPT ![r] = @ + Opens(resp)]
         /\ closed' = [closed EXCEPT ![r] = @ + ForwardCloses(resp)]
    /\ UNCHANGED <<config, newResult, handler, readFailed, body, uid, apiResp,
                   fetchedData, updatedBody, lookupCalls, forwardCalls, resubBody>>

ForwardReturn(r) == ForwardReturnOn(r, DestOutcomes)

\* one request handled by the handler New built
Next ==
    \/ New
    \/ ServeHTTP(1)
    \/ FetchReturn(1)
    \/ ForwardReturn(1)

Spec == Init /\ [][Next]_vars

\* http.Get and client.Do are blocking calls made without a timeout: that each
\* of them returns in the end is an assumption about the two remote services
CallsReturn == WF_vars(FetchReturn(1)) /\ WF_vars(ForwardReturn(1))

SpecFair == Init /\ [][Next]_vars /\ CallsReturn

(***************************************************************************)
(* Several requests served concurrently by one handler (specification      *)
(* SpecConc): net/http runs ServeHTTP of each request in its own           *)
(* goroutine, so the three steps of the requests interleave freely.        *)
(***************************************************************************)
ConcConfigs ==
    {c \in Configs :
        /\ c.APIURL = "http://lookup" /\ c.DestinationURL = "http://dest"
        /\ c.ReplaceableKeys \in {<<<<"a">>>>, <<<<"b">>, <<"a">>>>}}

ConcInbound ==
    {in \in Inbound :
        \/ in.readErr /\ in.body = <<>>
        \/ ~in.readErr /\ in.body \in {ObjBody(GoodUid, Token(<<"a">>)),
                                       ObjBody(GoodUid, Token(<<"b">>)),
                                       <<LBrace>> \o GoodUid}}

ConcLookupOutcomes ==
    {resp \in LookupOutcomes :
        \/ resp.err
        \/ resp.code = 404
        \/ resp.code = 200
           /\ resp.body \in {ObjectText(<<KV(<<"a">>, <<"X">>)>>),
                              ObjectText(<<KV(<<"a">>, Token(<<"b">>)),
                                           KV(<<"b">>, <<"Y">>)>>)}}

ConcDestOutcomes ==
    {resp \in DestOutcomes : resp.err \/ resp.body = "stored" \/ resp.code = 500}

InitConc ==
    /\ config \in ConcConfigs
    /\ newResult = "not called"
    /\ handler = NilHandler
    /\ InitRequests

NextConc ==
    \/ New
    \/ \E r \in ReqIds : ServeHTTPOn(r, ConcInbound)
    \/ \E r \in ReqIds : FetchReturnOn(r, ConcLookupOutcomes)
    \/ \E r \in ReqIds : ForwardReturnOn(r, ConcDestOutcomes)

SpecConc == InitConc /\ [][NextConc]_vars

(***************************************************************************)
(* The replacement loop on its own (specification SpecSub): lines 80-86 of *)
(* ServeHTTP applied to a body, a key list and a fetched mapping drawn     *)
(* from bounded sets, and then applied once more to its own result.        *)
(***************************************************************************)
SubKeyNames == {<<"a">>, <<"b">>, <<"a", RBrace, RBrace>>}

SubPieces == {Token(<<"a">>), Token(<<"b">>), <<LBrace, LBrace>>, <<RBrace, RBrace>>}

SubPayloads == {Concat(ps) : ps \in SeqsUpTo(SubPieces, MaxPieces)}

SubBodies == {ObjBody(GoodUid, p) : p \in SubPayloads}

SubValues == {<<"X">>, <<"b">>, <<>>, Token(<<"b">>)}

\* the mappings over a and b, and one that resolves the key a}} as well
SubFields ==
    UNION {[D -> SubValues] : D \in SUBSET {<<"a">>, <<"b">>}}
    \cup {[k \in {<<"a">>, <<"a", RBrace, RBrace>>} |->
              IF k = <<"a">> THEN <<"X">> ELSE <<"Y">>]}

SubConfig(keys) ==
    [APIURL |-> "http://lookup", ReplaceableKeys |-> keys, DestinationURL |-> "http://dest"]

InitSub ==
    /\ \E keys \in SeqsUpTo(SubKeyNames, MaxKeys) \ {<<>>} :
          /\ config = SubConfig(keys)
          /\ handler = PluginOf(SubConfig(keys))
    /\ newResult = "handler"
    /\ pc = [r \in ReqIds |-> IF r = 1 THEN "substitute" ELSE "idle"]
    /\ readFailed = [r \in ReqIds |-> FALSE]
    /\ \E b \in SubBodies : body = [r \in ReqIds |-> IF r = 1 THEN b ELSE <<>>]
    /\ uid = [r \in ReqIds |-> <<>>]
    /\ apiResp = [r \in ReqIds |-> NoResponse]
    /\ \E f \in SubFields :
          fetchedData = [r \in ReqIds |-> IF r = 1 THEN f ELSE EmptyMap]
    /\ updatedBody = [r \in ReqIds |-> <<>>]
    /\ destResp = [r \in ReqIds |-> NoDestResponse]
    /\ lookupCalls = [r \in ReqIds |-> <<>>]
    /\ forwardCalls = [r \in ReqIds |-> <<>>]
    /\ written = [r \in ReqIds |-> <<>>]
    /\ opened = [r \in ReqIds |-> 0]
    /\ closed = [r \in ReqIds |-> 0]
    /\ nextCalls = 0
    /\ resubBody = <<>>

\* lines 81-86: updatedBody := string(body), then the loop
SubstituteOnce ==
    /\ pc[1] = "substitute"
    /\ updatedBody' =
         [updatedBody EXCEPT
            ![1] = Substitute(body[1], handler.replaceableKeys, fetchedData[1])]
    /\ pc' = [pc EXCEPT ![1] = "substituted"]
    /\ UNCHANGED <<config, newResult, handler, readFailed, body, uid, apiResp,
                   fetchedData, destResp, lookupCalls, forwardCalls, written,
                   opened, closed, nextCalls, resubBody>>

\* the loop of lines 82-86 run again, on updatedBody
SubstituteAgain ==
    /\ pc[1] = "substituted"
    /\ resubBody' = Substitute(updatedBody[1], handler.replaceableKeys, fetchedData[1])
    /\ pc' = [pc EXCEPT ![1] = "resubstituted"]
    /\ UNCHANGED <<config, newResult, handler, readFailed, body, uid, apiResp,
                   fetchedData, updatedBody, destResp, lookupCalls, forwardCalls,
                   written, opened, closed, nextCalls>>

NextSub == SubstituteOnce \/ SubstituteAgain

SpecSub == InitSub /\ [][NextSub]_vars

(***************************************************************************)
(* Properties of the request pipeline (specification Spec).                *)
(***************************************************************************)
Keys == handler.replaceableKeys

\* request r has been served and its body was read
Served(r) == pc[r] # "idle" /\ ~readFailed[r]

\* exactly one response was written for r, with this status
Answered(r, code) ==
    /\ pc[r] = "done"
    /\ Len(written[r]) = 1
    /\ written[r][1].status = code

NoOutboundCall(r) == lookupCalls[r] = <<>> /\ forwardCalls[r] = <<>>

\* C1: a request whose body is not valid JSON is answered with status 400, and
\* neither the lookup call nor the forward call is issued for it.
C1_NonJSONRejected ==
    \A r \in ReqIds :
        (Served(r) /\ ~ValidJSON(body[r])) => (Answered(r, 400) /\ NoOutboundCall(r))

W1_NonJSONRejected ==
    \E r \in ReqIds :
        /\ Served(r) /\ ~ValidJSON(body[r]) /\ body[r] # <<>>
        /\ Answered(r, 400)

\* the body is a JSON object whose uid is absent, not a string, or empty
UidUnusable(text) ==
    LET p == ParseValue(text, 1)
    IN /\ ValidJSON(text)
       /\ p.t = "object"
       /\ \/ \A i \in 1..Len(p.m) : p.m[i].k # UidName
          \/ \E i \in 1..Len(p.m) :
                /\ p.m[i].k = UidName
                /\ \A j \in (i + 1)..Len(p.m) : p.m[j].k # UidName
                /\ (p.m[i].t # "string" \/ p.m[i].v = <<>>)

\* C2: a request whose JSON body has no uid key, or whose uid is not a string or
\* is the empty string, is answered with status 400, and neither the lookup call
\* nor the forward call is issued for it.
C2_MissingUidRejected ==
    \A r \in ReqIds :
        (Served(r) /\ UidUnusable(body[r])) => (Answered(r, 400) /\ NoOutboundCall(r))

W2_MissingUidRejected ==
    \E r \in ReqIds :
        /\ Served(r) /\ UidUnusable(body[r])
        /\ HasMember(ParseValue(body[r], 1).m, UidName)
        /\ Answered(r, 400)

\* http.Get has returned for the lookup call of r
LookupReturned(r) == lookupCalls[r] # <<>> /\ pc[r] # "lookup"

\* the lookup call of r has failed: transport error, a status other than 200, or
\* a body that does not decode
LookupFailed(r) ==
    /\ LookupReturned(r)
    /\ \/ apiResp[r].err
       \/ apiResp[r].code # 200
       \/ Decode(apiResp[r].body).err

\* C3: whenever the lookup call fails, the caller receives status 500 and the
\* forward call is not issued.
C3_LookupFailureIs500 ==
    \A r \in ReqIds :
        LookupFailed(r) => (Answered(r, 500) /\ forwardCalls[r] = <<>>)

W3_LookupFailureIs500 ==
    \E r \in ReqIds :
        /\ LookupFailed(r) /\ ~apiResp[r].err /\ apiResp[r].code = 404
        /\ Answered(r, 500)

\* the forward call of r has failed: the POST request could not be built, or it
\* could not be sent
ForwardFailed(r) ==
    /\ LookupReturned(r) /\ ~LookupFailed(r)
    /\ pc[r] = "done"
    /\ NewRequestFails(handler.destinationURL) \/ destResp[r].err

\* C4: whenever the forward call fails, the caller receives status 500, and what
\* is written is the error text, not a status relayed from the destination.
C4_ForwardFailureIs500 ==
    \A r \in ReqIds :
        ForwardFailed(r) =>
            /\ Answered(r, 500)
            /\ written[r][1].msg \in
                 {<<"could not create request to destination", "\n">>,
                  <<"could not send request to destination", "\n">>}

W4_ForwardFailureIs500 ==
    \E r \in ReqIds :
        /\ ForwardFailed(r) /\ destResp[r].err /\ forwardCalls[r] # <<>>
        /\ Answered(r, 500)

\* no configured key has an entry in the mapping the lookup returned for r
NoKeyResolved(r) ==
    \A i \in 1..Len(Keys) : Keys[i] \notin DOMAIN fetchedData[r]

\* C7: when no configured key is in the mapping returned by the lookup, the body
\* POSTed to the destination is the original request body; a key that is only in
\* the mapping changes nothing.
C7_UnresolvedBodyUnchanged ==
    \A r \in ReqIds :
        (forwardCalls[r] # <<>> /\ NoKeyResolved(r)) =>
            /\ Len(forwardCalls[r]) = 1
            /\ forwardCalls[r][1].body = body[r]

W7_UnresolvedBodyUnchanged ==
    \E r \in ReqIds :
        /\ forwardCalls[r] # <<>> /\ NoKeyResolved(r)
        /\ \E k \in DOMAIN fetchedData[r] : Contains(body[r], Token(k))
        /\ \E i \in 1..Len(Keys) : Contains(body[r], Token(Keys[i]))
        /\ forwardCalls[r][1].body = body[r]

\* client.Do has returned a response of the destination for r
DestinationAnswered(r) ==
    forwardCalls[r] # <<>> /\ pc[r] = "done" /\ ~destResp[r].err

\* C8: whenever the forward call obtains a response, the status written to the
\* caller is the destination's status, whatever it is, and the text written is
\* made of the destination's status line only, not of its body.
C8_StatusRelayed ==
    \A r \in ReqIds :
        DestinationAnswered(r) =>
            /\ Answered(r, destResp[r].code)
            /\ written[r][1].msg =
                 <<"Request sent to destination with status: ", destResp[r].status>>
            /\ (destResp[r].body # destResp[r].status =>
                  destResp[r].body \notin {written[r][1].msg[1], written[r][1].msg[2]})

W8_StatusRelayed ==
    \E r \in ReqIds :
        /\ DestinationAnswered(r) /\ destResp[r].code = 503
        /\ Answered(r, 503)

\* C9: New returns an error and no handler when the lookup URL, the destination
\* URL or the key list is empty, and then no request is processed; otherwise it
\* returns a handler that holds the configured lookup URL, key list and
\* destination URL.
C9_NewValidates ==
    newResult # "not called" =>
        IF config.APIURL = "" \/ config.DestinationURL = ""
           \/ config.ReplaceableKeys = <<>>
        THEN /\ newResult = "error"
             /\ handler = NilHandler
             /\ \A r \in ReqIds : pc[r] = "idle" /\ written[r] = <<>>
        ELSE /\ newResult = "handler"
             /\ handler.apiURL = config.APIURL
             /\ handler.replaceableKeys = config.ReplaceableKeys
             /\ handler.destinationURL = config.DestinationURL

W9_NewValidates ==
    /\ newResult = "error"
    /\ config.APIURL # "" /\ config.ReplaceableKeys # <<>>
    /\ config.DestinationURL = ""

\* C10: in every handler New has built, the key list is a non-empty list of
\* non-empty strings.
X10_KeysNonEmpty ==
    newResult = "handler" =>
        /\ Keys # <<>>
        /\ \A i \in 1..Len(Keys) : Keys[i] # <<>>

(***************************************************************************)
(* Properties of the replacement loop (specification SpecSub).             *)
(***************************************************************************)
\* the token {{key}}, spelled out
Placeholder(key) == <<"{", "{">> \o key \o <<"}", "}">>

BraceFree(s) == \A i \in 1..Len(s) : s[i] \notin {"{", "}"}

\* every {{ in the text opens a token {{name}} whose name has no brace
BracePairsOpenTokens(text) ==
    \A p \in 1..Len(text) :
        (p < Len(text) /\ text[p] = "{" /\ text[p + 1] = "{") =>
            \E q \in (p + 2)..Len(text) :
                /\ q < Len(text) /\ text[q] = "}" /\ text[q + 1] = "}"
                /\ BraceFree(SubSeq(text, p + 2, q - 1))

\* no replacement can make or break a token: the keys and the values that are
\* inserted carry no brace, and the body has {{ only at the start of a token
PlainInputs(text, keys, fields) ==
    /\ \A i \in 1..Len(keys) : BraceFree(keys[i])
    /\ \A i \in 1..Len(keys) : keys[i] \in DOMAIN fields => BraceFree(fields[keys[i]])
    /\ BracePairsOpenTokens(text)

\* what the loop makes of a piece of text with the keys and mapping of the state
Replaced(text) == Substitute(text, Keys, fetchedData[1])

SubDone == pc[1] \in {"substituted", "resubstituted"}

\* C5, as stated: for every body, key list and mapping, the Transformed Body
\* contains the resolved value of every configured and resolved key whose token
\* occurs in the original body, and still contains the token of every configured
\* key that the mapping lacks and whose token occurs in the original body.
X5_TokensResolved ==
    SubDone =>
        \A i \in 1..Len(Keys) :
            Contains(body[1], Placeholder(Keys[i])) =>
                IF Keys[i] \in DOMAIN fetchedData[1]
                THEN Contains(updatedBody[1], fetchedData[1][Keys[i]])
                ELSE Contains(updatedBody[1], Placeholder(Keys[i]))

\* C5, amended: when no configured key and no resolved value of a configured key
\* contains a brace, and every {{ of the original body opens a token {{name}} with
\* a brace-free name, then at each position where the token of a configured key
\* occurs in the original body the Transformed Body has the key's resolved value
\* (the token itself, when the mapping lacks the key) between the transformed
\* text before the token and the transformed text after it.
C5_TokensResolved ==
    (SubDone /\ PlainInputs(body[1], Keys, fetchedData[1])) =>
        \A i \in 1..Len(Keys) : \A p \in 1..Len(body[1]) :
            HasPrefixAt(body[1], p, Placeholder(Keys[i])) =>
                updatedBody[1] =
                    Replaced(SubSeq(body[1], 1, p - 1))
                    \o (IF Keys[i] \in DOMAIN fetchedData[1]
                        THEN fetchedData[1][Keys[i]]
                        ELSE Placeholder(Keys[i]))
                    \o Replaced(SubSeq(body[1], p + Len(Placeholder(Keys[i])),
                                       Len(body[1])))

W5_TokensResolved ==
    /\ SubDone /\ PlainInputs(body[1], Keys, fetchedData[1])
    /\ \E i, j \in 1..Len(Keys) :
          /\ Keys[i] \in DOMAIN fetchedData[1]
          /\ Keys[j] \notin DOMAIN fetchedData[1]
          /\ Contains(body[1], Placeholder(Keys[i]))
          /\ Contains(body[1], Placeholder(Keys[j]))
          /\ Contains(updatedBody[1], fetchedData[1][Keys[i]])
          /\ Contains(updatedBody[1], Placeholder(Keys[j]))
          /\ ~Contains(updatedBody[1], Placeholder(Keys[i]))

\* C6, as stated: for every body, key list and mapping, the loop applied to the
\* already-substituted body returns it unchanged.
X6_Idempotent ==
    pc[1] = "resubstituted" => resubBody = updatedBody[1]

\* C6, amended: when no configured key and no resolved value of a configured key
\* contains a brace, and every {{ of the original body opens a token {{name}} with
\* a brace-free name, the loop applied to the already-substituted body returns it
\* unchanged, and no token of a configured and resolved key is left in it.
C6_Idempotent ==
    (pc[1] = "resubstituted" /\ PlainInputs(body[1], Keys, fetchedData[1])) =>
        /\ resubBody = updatedBody[1]
        /\ \A i \in 1..Len(Keys) :
              Keys[i] \in DOMAIN fetchedData[1] =>
                  ~Contains(updatedBody[1], Placeholder(Keys[i]))

W6_Idempotent ==
    /\ pc[1] = "resubstituted" /\ PlainInputs(body[1], Keys, fetchedData[1])
    /\ updatedBody[1] # body[1]
    /\ \E i \in 1..Len(Keys) : Contains(updatedBody[1], Placeholder(Keys[i]))
    /\ resubBody = updatedBody[1]

\* fetchDataFromAPI has returned to ServeHTTP without an error for r
LookupSucceeded(r) ==
    /\ LookupReturned(r)
    /\ \A i \in 1..Len(written[r]) :
         written[r][i].msg # <<"could not fetch data from API", "\n">>

\* text is one JSON object, every member of which has a string value
StringObject(text) ==
    /\ ValidJSON(text)
    /\ ParseValue(text, 1).t = "object"
    /\ \A i \in 1..Len(ParseValue(text, 1).m) : ParseValue(text, 1).m[i].t = "string"

\* C11: the lookup call succeeds only when the lookup endpoint answers with
\* status exactly 200 and a body that is a JSON object all of whose values are
\* strings; every other status and every other body shape is a lookup failure.
X11_LookupSuccessShape ==
    \A r \in ReqIds :
        LookupSucceeded(r) =>
            /\ ~apiResp[r].err
            /\ apiResp[r].code = 200
            /\ StringObject(apiResp[r].body)

\* an outbound call of r has been issued and has not returned yet
CallInFlight(r) == pc[r] \in {"lookup", "forward"}

\* C12: within one request the steps occur in the order parse, lookup,
\* substitute, forward, response write, with no retries: at most one lookup call
\* and at most one forward call are issued, the lookup call only for a body that
\* was read and parsed, the forward call only after the lookup call of the same
\* request has succeeded and with the substituted body, and the response is
\* written only when no outbound call of the request is in flight.
C12_StepOrder ==
    \A r \in ReqIds :
        /\ Len(lookupCalls[r]) <= 1
        /\ Len(forwardCalls[r]) <= 1
        /\ lookupCalls[r] # <<>> =>
              /\ ~readFailed[r]
              /\ ValidJSON(body[r])
              /\ lookupCalls[r][1].uid = uid[r]
        /\ pc[r] = "lookup" => (forwardCalls[r] = <<>> /\ written[r] = <<>>)
        /\ forwardCalls[r] # <<>> =>
              /\ LookupReturned(r) /\ ~LookupFailed(r)
              /\ forwardCalls[r][1].body = updatedBody[r]
        /\ written[r] # <<>> => (~CallInFlight(r) /\ Len(written[r]) = 1)
        /\ (written[r] # <<>> /\ forwardCalls[r] # <<>>) => destResp[r] # NoDestResponse

W12_StepOrder ==
    \E r \in ReqIds :
        /\ Len(lookupCalls[r]) = 1 /\ Len(forwardCalls[r]) = 1
        /\ ~destResp[r].err /\ destResp[r].code = 201
        /\ updatedBody[r] # body[r]
        /\ Len(written[r]) = 1

\* everything the handling of r has read, issued and written
ReqState(r) ==
    <<pc[r], readFailed[r], body[r], uid[r], apiResp[r], fetchedData[r],
      updatedBody[r], destResp[r], lookupCalls[r], forwardCalls[r], written[r],
      opened[r], closed[r]>>

\* the lookup calls of r1 and r2 have returned, and the two requests had the
\* same body and got the same lookup response
SameLookup(r1, r2) ==
    /\ pc[r1] \in {"forward", "done"} /\ pc[r2] \in {"forward", "done"}
    /\ readFailed[r1] = readFailed[r2]
    /\ body[r1] = body[r2]
    /\ apiResp[r1] = apiResp[r2]

\* C13: concurrent requests do not interfere: no step of handling a request
\* changes the handler's configuration or anything that belongs to another
\* request, and in every interleaving two requests with the same body and the
\* same responses to their own calls forward the same body and write the same
\* status, whatever the other requests are doing.
C13_NoInterference ==
    [][/\ newResult = "handler" => (handler' = handler /\ config' = config)
       /\ \A r \in ReqIds : pc'[r] = pc[r] => ReqState(r)' = ReqState(r)
       /\ \A r1, r2 \in ReqIds :
            /\ SameLookup(r1, r2)' => forwardCalls'[r1] = forwardCalls'[r2]
            /\ (/\ SameLookup(r1, r2)'
                /\ pc'[r1] = "done" /\ pc'[r2] = "done"
                /\ destResp'[r1] = destResp'[r2]) => written'[r1] = written'[r2]
      ]_vars

W13_NoInterference ==
    \E r1, r2 \in ReqIds :
        /\ r1 # r2
        /\ SameLookup(r1, r2)
        /\ pc[r1] = "done" /\ pc[r2] = "forward"
        /\ forwardCalls[r1] # <<>> /\ forwardCalls[r1][1].body # body[r1]
        /\ \E i \in 1..Len(written[r1]) : written[r1][i].status = 200

\* the outbound responses r has obtained and not closed
OpenResponses(r) == opened[r] - closed[r]

\* C14: every outbound response obtained by the lookup call or by the forward
\* call is closed before the handling of the request ends, on every exit path:
\* when a request has completed, it holds no open outbound response, and it has
\* obtained one response for each of its calls that returned without error.
C14_ResponsesClosed ==
    \A r \in ReqIds :
        /\ OpenResponses(r) >= 0
        /\ pc[r] = "done" =>
              /\ OpenResponses(r) = 0
              /\ opened[r] = (IF LookupReturned(r) /\ ~apiResp[r].err THEN 1 ELSE 0)
                             + (IF DestinationAnswered(r) THEN 1 ELSE 0)

\* the lookup answered, and fetchDataFromAPI returned at line 103 or line 108
W14_ResponsesClosed ==
    \E r \in ReqIds :
        /\ pc[r] = "done" /\ LookupFailed(r) /\ ~apiResp[r].err
        /\ apiResp[r].code = 200
        /\ opened[r] = 1 /\ closed[r] = 1

\* old occurs in s at position j
OccursAt(s, j, old) ==
    j + Len(old) - 1 <= Len(s) /\ SubSeq(s, j, j + Len(old) - 1) = old

\* s with its occurrences of the non-empty old, taken from the left and not
\* overlapping, replaced by new; what is inserted is not looked at again
RECURSIVE AllReplaced(_, _, _)
AllReplaced(s, old, new) ==
    IF \A j \in 1..Len(s) : ~OccursAt(s, j, old) THEN s
    ELSE LET j == CHOOSE k \in 1..Len(s) :
                      OccursAt(s, k, old) /\ \A h \in 1..(k - 1) : ~OccursAt(s, h, old)
         IN SubSeq(s, 1, j - 1) \o new
            \o AllReplaced(SubSeq(s, j + Len(old), Len(s)), old, new)

\* the text once the first n keys of the list have been processed in list order
RECURSIVE KeysApplied(_, _, _, _)
KeysApplied(text, keys, fields, n) ==
    IF n = 0 THEN text
    ELSE LET prev == KeysApplied(text, keys, fields, n - 1)
         IN IF keys[n] \in DOMAIN fields
            THEN AllReplaced(prev, Placeholder(keys[n]), fields[keys[n]])
            ELSE prev

\* {"uid":"abc123","greeting":"Hello Ada"}
ExampleResult ==
    <<"{", "\"", "u", "i", "d", "\"", ":", "\"", "a", "b", "c", "1", "2", "3", "\"", ",",
      "\"", "g", "r", "e", "e", "t", "i", "n", "g", "\"", ":",
      "\"", "H", "e", "l", "l", "o", " ", "A", "d", "a", "\"", "}">>

\* {"uid":"abc123","greeting":"Hello {{name}}"}
ExampleRequest ==
    <<"{", "\"", "u", "i", "d", "\"", ":", "\"", "a", "b", "c", "1", "2", "3", "\"", ",",
      "\"", "g", "r", "e", "e", "t", "i", "n", "g", "\"", ":",
      "\"", "H", "e", "l", "l", "o", " ", "{", "{", "n", "a", "m", "e", "}", "}", "\"", "}">>

\* r is the documented example: its body, the key list [name], the lookup
\* result {name: Ada}
IsExample(r) ==
    /\ body[r] = ExampleRequest
    /\ Keys = <<(<<"n", "a", "m", "e">>)>>
    /\ fetchedData[r] = [k \in {<<"n", "a", "m", "e">>} |-> <<"A", "d", "a">>]

\* C15: the Transformed Body is the result of processing the configured keys one
\* after another in list order, each resolved key replacing all occurrences of
\* its token in the text the previous keys produced; the body POSTed to the
\* destination is exactly this text, and for the documented example it is
\* {"uid":"abc123","greeting":"Hello Ada"}.
C15_SequentialReplacement ==
    \A r \in ReqIds :
        forwardCalls[r] # <<>> =>
            /\ Len(forwardCalls[r]) = 1
            /\ forwardCalls[r][1].body =
                  KeysApplied(body[r], Keys, fetchedData[r], Len(Keys))
            /\ IsExample(r) => forwardCalls[r][1].body = ExampleResult

W15_SequentialReplacement ==
    \E r \in ReqIds :
        /\ IsExample(r)
        /\ forwardCalls[r] # <<>>
        /\ forwardCalls[r][1].body = ExampleResult
        /\ forwardCalls[r][1].url = "http://dest"

\* ServeHTTP has returned for r having written exactly one response
AnsweredOnce(r) == pc[r] = "done" /\ Len(written[r]) = 1

\* C16: provided every outbound call eventually returns, the handling of every
\* request terminates having written exactly one status to the caller: a request
\* that waits for an outbound call ends up answered, a status is written when
\* and only when the handling ends, it is written once on every path, and no
\* step of the pipeline runs for the request after it.
C16_TerminatesAnsweredOnce ==
    /\ \A r \in ReqIds : CallInFlight(r) ~> AnsweredOnce(r)
    /\ [][\A r \in ReqIds :
            /\ pc'[r] = "done" => Len(written'[r]) = 1
            /\ pc'[r] # "done" => written'[r] = <<>>
            /\ pc[r] = "done" => ReqState(r)' = ReqState(r)
         ]_vars

\* answered once on the forward-failure path
W16_TerminatesAnsweredOnce ==
    \E r \in ReqIds :
        /\ AnsweredOnce(r)
        /\ forwardCalls[r] # <<>> /\ destResp[r].err
        /\ written[r][1].status = 500

\* C17: the plugin is terminal in the middleware chain: on no path of ServeHTTP,
\* success or failure, is the stored next handler invoked, and what a request
\* sends on is only the POST to the configured destination URL.
C17_NextNeverInvoked ==
    /\ nextCalls = 0
    /\ \A r \in ReqIds :
         \A i \in 1..Len(forwardCalls[r]) :
            forwardCalls[r][i].url = config.DestinationURL

\* the success path has run to its end and next was not invoked
W17_NextNeverInvoked ==
    \E r \in ReqIds :
        /\ DestinationAnswered(r) /\ Answered(r, 200)
        /\ handler.next = "next"
        /\ nextCalls = 0

\* C18: when reading the inbound request body fails, ServeHTTP writes status 500,
\* not 400, and issues neither the lookup call nor the forward call; what it
\* writes is none of the responses of the four error kinds (invalid JSON, uid
\* not found, lookup failure, forward failure).
C18_ReadFailureIs500 ==
    \A r \in ReqIds :
        (pc[r] # "idle" /\ readFailed[r]) =>
            /\ Answered(r, 500)
            /\ NoOutboundCall(r)
            /\ written[r][1].msg = <<"could not read request body", "\n">>
            /\ written[r][1].msg \notin
                 {<<"invalid JSON", "\n">>,
                  <<"uid not found in request", "\n">>,
                  <<"could not fetch data from API", "\n">>,
                  <<"could not create request to destination", "\n">>,
                  <<"could not send request to destination", "\n">>}

\* the read failed after the bytes of a well-formed start had arrived
W18_ReadFailureIs500 ==
    \E r \in ReqIds :
        /\ readFailed[r] /\ body[r] # <<>>
        /\ Answered(r, 500) /\ NoOutboundCall(r)

\* the type of the top-level JSON value of text
TopLevel(text) == ParseValue(text, 1).t

\* C19: a body that is valid JSON but whose top-level value is an array, a
\* string, a number or a boolean is rejected at the parse step with the
\* invalid-JSON 400 response, whereas the body null passes the parse step and is
\* rejected at the identifier step with the uid-not-found 400 response; in both
\* cases no lookup or forward call is issued.
C19_NonObjectBodies ==
    \A r \in ReqIds :
        (Served(r) /\ ValidJSON(body[r])) =>
            /\ TopLevel(body[r]) \in {"array", "string", "number", "bool"} =>
                  /\ Answered(r, 400) /\ NoOutboundCall(r)
                  /\ written[r][1].msg = <<"invalid JSON", "\n">>
            /\ TopLevel(body[r]) = "null" =>
                  /\ Answered(r, 400) /\ NoOutboundCall(r)
                  /\ written[r][1].msg = <<"uid not found in request", "\n">>

W19_NonObjectBodies ==
    \E r \in ReqIds :
        /\ Served(r) /\ body[r] = <<"n", "u", "l", "l">>
        /\ Answered(r, 400)
        /\ written[r][1].msg = <<"uid not found in request", "\n">>

====
